---- MODULE Spec2Model ----
(***************************************************************************)
(* Model of the MagicMirror module MMM-WeatherChartD3                      *)
(* (src/MMM-WeatherChartD3.js): the update scheduling (start, suspend,     *)
(* resume, scheduleUpdate, updateAvailable) and the render pass (getDom,   *)
(* the hourly/daily merge and the precipitation slot duration).            *)
(*                                                                         *)
(* Time is not modelled: a pending timeout may fire at any moment, so the  *)
(* delay handed to setTimeout (initialLoadDelay, 0 or updateInterval) only *)
(* decides when a timer fires, never whether.                             *)
(***************************************************************************)
EXTENDS Integers, Sequences, FiniteSets, TLC

\* ------------------------------------------------------------------ bounds
MaxInflight == 4    \* provider fetches awaiting their callback
MaxOrphans == 2     \* pending timeouts this.timer no longer refers to
MaxHostCalls == 3   \* suspend/resume calls made by the host
MaxSamples == 3     \* samples held by the provider, hourly and daily together
MaxTick == 2        \* sample dates are 0, 10, 30, ...: 10 * (2^k - 1) ms for k <= MaxTick
MaxRenders == 2     \* svg elements built by getDom
MaxLen == 5         \* length of the array handed to keepExtremes
MaxValue == 5       \* values fctGet returns are 1..MaxValue
MaxDelta == 3       \* a defined minDelta is 0..MaxDelta
MaxPlotSamples == 2 \* hourly samples held by the provider when field values vary
MaxIconSamples == 3 \* hourly samples held by the provider when weather types vary

\* ------------------------------------------------------------- strings
\* A string is a sequence of one-character strings, so that toLowerCase is
\* computed character by character.
UpperChars == <<"A", "B", "C", "D", "E", "F", "G", "H", "I", "J", "K", "L", "M",
                "N", "O", "P", "Q", "R", "S", "T", "U", "V", "W", "X", "Y", "Z">>
LowerChars == <<"a", "b", "c", "d", "e", "f", "g", "h", "i", "j", "k", "l", "m",
                "n", "o", "p", "q", "r", "s", "t", "u", "v", "w", "x", "y", "z">>

toLowerCaseChar(c) ==
    IF \E i \in DOMAIN UpperChars : UpperChars[i] = c
    THEN LowerChars[CHOOSE i \in DOMAIN UpperChars : UpperChars[i] = c]
    ELSE c

\* Faulty variant: the type is compared as configured, without lowering it.
toLowerCase_asIs(s) == s

toLowerCase(s) == [i \in DOMAIN s |-> toLowerCaseChar(s[i])]

STR_hourly == <<"h", "o", "u", "r", "l", "y">>
STR_daily == <<"d", "a", "i", "l", "y">>
STR_forecast == <<"f", "o", "r", "e", "c", "a", "s", "t">>
STR_full == <<"f", "u", "l", "l">>

\* Spellings of config.type handed to the module by the host configuration.
HourlySpellings == {STR_hourly, <<"H", "O", "U", "R", "L", "Y">>}
DailySpellings == {STR_daily, <<"D", "a", "i", "l", "y">>, STR_forecast,
                   <<"F", "o", "r", "e", "C", "a", "s", "t">>}
FullSpellings == {STR_full, <<"F", "u", "l", "l">>}
OtherSpellings == {<<"w", "e", "e", "k", "l", "y">>, <<"h", "o", "u", "r">>, <<>>}
TypeInputs == HourlySpellings \cup DailySpellings \cup FullSpellings \cup OtherSpellings

\* The module's default properties (the ones the model reads).
defaults ==
    [type |-> STR_full, iconSize |-> "undefined", showIcons |-> TRUE, showNights |-> TRUE,
     showTemperature |-> TRUE, showMinMaxTemperature |-> FALSE, showFeelsLikeTemp |-> TRUE,
     showPrecipitationAmount |-> TRUE, showPressure |-> TRUE, showHumidity |-> TRUE,
     showWind |-> TRUE, showAQI |-> TRUE, showUVI |-> TRUE]

\* ------------------------------------------------------------------ state
VARIABLES
    config,          \* this.config
    weatherProvider, \* the configured provider: which optional methods it defines
    started,         \* start has run: this.weatherProvider is initialized
    timer,           \* this.timer: "undefined", "armed" (timeout pending), "stale"
    orphanTimers,    \* pending timeouts whose handle this.timer has lost
    nbUpdateWait,    \* this.nbUpdateWait
    inflightCur,     \* fetches of the latest fetch cycle awaiting updateAvailable
    inflightOld,     \* fetches of earlier fetch cycles awaiting updateAvailable
    suspended,       \* the host called suspend and has not called resume since
    hostCalls,       \* number of suspend/resume calls made so far
    last,            \* what the last handler did: [op, fetches, updateDom, error, threw]
    weatherHourly,   \* what weatherProvider.weatherHourly() returns
    weatherForecast, \* what weatherProvider.weatherForecast() returns
    pollutionForecast, \* what weatherProvider.pollutionForecast() returns
    container,       \* the svg elements inside the module's div, in document order
    renders,         \* number of svg elements built so far
    dom,             \* what the getDom call that has just returned did
    extremes         \* a keepExtremes call: its arguments and what it returned

schedVars == <<weatherProvider, started, timer, orphanTimers, nbUpdateWait,
               inflightCur, inflightOld, suspended, hostCalls, last>>

domVars == <<weatherHourly, weatherForecast, pollutionForecast, container, renders, dom>>

extVars == <<extremes>>

vars == <<config, weatherProvider, started, timer, orphanTimers, nbUpdateWait,
          inflightCur, inflightOld, suspended, hostCalls, last,
          weatherHourly, weatherForecast, pollutionForecast, container, renders, dom,
          extremes>>

Did(op, fetches, updateDom, error, threw) ==
    [op |-> op, fetches |-> fetches, updateDom |-> updateDom, error |-> error, threw |-> threw]

\* The optional members a provider may or may not define.
Providers == [fetchCurrentPollution : BOOLEAN, fetchPollutionForecast : BOOLEAN]

\* A provider getter returns null until data has been fetched, then an array.
Null == [kind |-> "null", items |-> <<>>]
Arr(items) == [kind |-> "array", items |-> items]

\* No getDom call has just returned.
NoDom ==
    [called |-> FALSE, rendered |-> FALSE, sortedData |-> <<>>, removed |-> 0, added |-> 0,
     plots |-> {}, threw |-> {}, precipitation |-> [data |-> <<>>, threw |-> FALSE],
     icons |-> <<>>, promise |-> "none"]

InitSched ==
    /\ weatherProvider \in Providers
    /\ started = FALSE
    /\ timer = "undefined"
    /\ orphanTimers = 0
    /\ nbUpdateWait = 0
    /\ inflightCur = 0
    /\ inflightOld = 0
    /\ suspended = FALSE
    /\ hostCalls = 0
    /\ last = Did("init", 0, FALSE, FALSE, FALSE)

InitDom ==
    /\ weatherHourly = Null
    /\ weatherForecast = Null
    /\ container = <<>>
    /\ renders = 0
    /\ dom = NoDom

\* minDelta === undefined, or a number.
Undefined == [defined |-> FALSE, v |-> 0]
Number(v) == [defined |-> TRUE, v |-> v]

\* No keepExtremes call is under study.
InitExt == extremes = [data |-> <<>>, minDelta |-> Undefined, called |-> FALSE, result |-> <<>>]

Init ==
    /\ config \in {[defaults EXCEPT !.type = t, !.showAQI = a] : t \in TypeInputs, a \in BOOLEAN}
    /\ InitSched
    /\ InitDom
    /\ pollutionForecast = Null
    /\ InitExt

\* ------------------------------------------------------------- scheduling
\* scheduleUpdate: this.timer = setTimeout(...). The previous timeout is not
\* cleared: if it is still pending it keeps running without a handle.
scheduleUpdate ==
    /\ orphanTimers' = IF timer = "armed" THEN orphanTimers + 1 ELSE orphanTimers
    /\ orphanTimers' <= MaxOrphans
    /\ timer' = "armed"

start ==
    /\ ~started
    /\ started' = TRUE
    /\ scheduleUpdate
    /\ last' = Did("start", 0, FALSE, FALSE, FALSE)
    /\ UNCHANGED <<config, weatherProvider, nbUpdateWait, inflightCur, inflightOld, suspended, hostCalls>>
    /\ UNCHANGED domVars
    /\ UNCHANGED extVars

suspend ==
    /\ started
    /\ hostCalls < MaxHostCalls
    /\ hostCalls' = hostCalls + 1
    /\ timer' = IF timer = "armed" THEN "stale" ELSE timer
    /\ suspended' = TRUE
    /\ last' = Did("suspend", 0, FALSE, FALSE, FALSE)
    /\ UNCHANGED <<config, weatherProvider, started, orphanTimers, nbUpdateWait, inflightCur, inflightOld>>
    /\ UNCHANGED domVars
    /\ UNCHANGED extVars

resume ==
    /\ started
    /\ hostCalls < MaxHostCalls
    /\ hostCalls' = hostCalls + 1
    /\ scheduleUpdate
    /\ suspended' = FALSE
    /\ last' = Did("resume", 0, FALSE, FALSE, FALSE)
    /\ UNCHANGED <<config, weatherProvider, started, nbUpdateWait, inflightCur, inflightOld>>
    /\ UNCHANGED domVars
    /\ UNCHANGED extVars

\* Faulty variant: the default branch waits for a callback and logs nothing.
invalidType_counted(cfg) == [wait |-> 1, fetches |-> 0, error |-> FALSE, threw |-> FALSE]

\* default: nbUpdateWait = 0 and Log.error, no fetch.
invalidType(cfg) == [wait |-> 0, fetches |-> 0, error |-> TRUE, threw |-> FALSE]

\* The switch of the timeout callback: the value nbUpdateWait is left with,
\* the number of provider fetches issued, whether Log.error was called and
\* whether the callback threw (calling a method the provider does not define).
TimerOutcome(cfg, prov) ==
    LET t == toLowerCase(cfg.type) IN
    IF t = STR_hourly THEN [wait |-> 1, fetches |-> 1, error |-> FALSE, threw |-> FALSE]
    ELSE IF t = STR_daily \/ t = STR_forecast
    THEN [wait |-> 1, fetches |-> 1, error |-> FALSE, threw |-> FALSE]
    ELSE IF t = STR_full
    THEN IF cfg.showAQI /\ prov.fetchCurrentPollution
         THEN IF prov.fetchPollutionForecast
              THEN [wait |-> 3, fetches |-> 3, error |-> FALSE, threw |-> FALSE]
              ELSE [wait |-> 3, fetches |-> 0, error |-> FALSE, threw |-> TRUE]
         ELSE [wait |-> 2, fetches |-> 2, error |-> FALSE, threw |-> FALSE]
    ELSE invalidType(cfg)

\* A pending timeout fires: the one this.timer refers to, or an orphan.
timerCallback ==
    /\ \/ /\ timer = "armed"
          /\ timer' = "stale"
          /\ UNCHANGED orphanTimers
       \/ /\ orphanTimers > 0
          /\ orphanTimers' = orphanTimers - 1
          /\ UNCHANGED timer
    /\ LET o == TimerOutcome(config, weatherProvider) IN
        /\ inflightCur + inflightOld + o.fetches <= MaxInflight
        /\ nbUpdateWait' = o.wait
        /\ inflightOld' = inflightOld + inflightCur
        /\ inflightCur' = o.fetches
        /\ last' = Did("timer", o.fetches, FALSE, o.error, o.threw)
    /\ UNCHANGED <<config, weatherProvider, started, suspended, hostCalls>>
    /\ UNCHANGED domVars
    /\ UNCHANGED extVars

\* The provider answers one outstanding fetch, of the latest cycle or of an
\* earlier one.
updateAvailable ==
    /\ \/ /\ inflightCur > 0
          /\ inflightCur' = inflightCur - 1
          /\ UNCHANGED inflightOld
       \/ /\ inflightOld > 0
          /\ inflightOld' = inflightOld - 1
          /\ UNCHANGED inflightCur
    /\ nbUpdateWait' = nbUpdateWait - 1
    /\ IF nbUpdateWait' <= 0
       THEN /\ scheduleUpdate
            /\ last' = Did("updateAvailable", 0, TRUE, FALSE, FALSE)
       ELSE /\ UNCHANGED <<timer, orphanTimers>>
            /\ last' = Did("updateAvailable", 0, FALSE, FALSE, FALSE)
    /\ UNCHANGED <<config, weatherProvider, started, suspended, hostCalls>>
    /\ UNCHANGED domVars
    /\ UNCHANGED extVars

\* ------------------------------------------------------------ render pass
\* The dates (in ms) and precipitationAmount values a provider sample carries;
\* the gap between successive dates doubles, as hourly slots are followed by
\* longer ones. src records which getter the sample object came from.
Dates == {10 * (2^k - 1) : k \in 0..MaxTick}
PrecipitationAmounts == {"undefined", "null", "number"}

\* What a numeric field of a sample may hold: nothing, null, 0 or another number.
FieldValues == {"undefined", "null", "0", "number"}

\* The numeric fields the line plots read.
PlotFields == {"temperature", "pressure", "humidity", "windSpeed", "uvi"}

\* What the weatherType of a sample may hold: nothing, or the name of an icon.
WeatherTypes == {"undefined", "day-sunny", "rain"}

\* Samples whose dates and precipitation amounts vary; every other field holds a value.
Samples(src) ==
    [date : Dates, precipitationAmount : PrecipitationAmounts, src : {src},
     temperature : {"number"}, pressure : {"number"}, humidity : {"number"},
     windSpeed : {"number"}, uvi : {"number"}, weatherType : {"day-sunny"}]

\* A pollution sample.
PollutionSamples == [date : {0}, aqi : FieldValues]

Abs(x) == IF x < 0 THEN -x ELSE x

ifDef(value, fallback) ==
    IF value.kind = "undefined" \/ value.kind = "null" THEN fallback ELSE value.items

\* d3.max(data, d => d.date), on a non-empty array.
d3max(data) ==
    CHOOSE m \in {data[i].date : i \in DOMAIN data} :
        \A i \in DOMAIN data : data[i].date <= m

\* dataDaily.filter(d => d.date.isAfter(dateMaxHourly))
isAfter(date, other) == date > other

\* Faulty variant: isSameOrAfter instead of isAfter.
filterDaily_sameOrAfter(dataDaily, dateMaxHourly) ==
    SelectSeq(dataDaily, LAMBDA d : d.date >= dateMaxHourly)

filterDaily(dataDaily, dateMaxHourly) ==
    SelectSeq(dataDaily, LAMBDA d : isAfter(d.date, dateMaxHourly))

\* d3.sort(values, d => d.date): a stable ascending sort, here by insertion.
\* Faulty variant: an unstable sort, equal dates swap places.
sortInsert_unstable(sorted, x) ==
    LET before == SelectSeq(sorted, LAMBDA d : d.date < x.date)
        after == SelectSeq(sorted, LAMBDA d : d.date >= x.date)
    IN before \o <<x>> \o after

sortInsert(sorted, x) ==
    LET before == SelectSeq(sorted, LAMBDA d : d.date <= x.date)
        after == SelectSeq(sorted, LAMBDA d : d.date > x.date)
    IN before \o <<x>> \o after

\* Faulty variant: the concatenation is left unsorted.
d3sort_unsorted(values) == values

RECURSIVE d3sort(_)
d3sort(values) ==
    IF values = <<>> THEN <<>>
    ELSE sortInsert(d3sort(SubSeq(values, 1, Len(values) - 1)), values[Len(values)])

\* if (dataHourly.length > 0 || dataDaily.length > 0)
\* Faulty variant: the length test always passes.
hasData_always(dataHourly, dataDaily) == TRUE

hasData(dataHourly, dataDaily) == Len(dataHourly) > 0 \/ Len(dataDaily) > 0

\* The merge of getDom: the daily samples after the last hourly one are kept,
\* then everything is sorted by date.
mergeData(dataHourly, dataDaily) ==
    LET daily == IF Len(dataHourly) > 0 /\ Len(dataDaily) > 0
                 THEN filterDaily(dataDaily, d3max(dataHourly))
                 ELSE dataDaily
    IN d3sort(dataHourly \o daily)

\* Index (1-based) of the sample whose date closes the slot of sample i:
\* data[i + (i + 1 < data.length ? 1 : -1)]; 0 when there is no such sample.
\* Faulty variant: the previous sample is preferred to the next one.
periodNeighbour_previous(i, len) == IF i > 1 THEN i - 1 ELSE i + 1

periodNeighbour(i, len) == IF i < len THEN i + 1 ELSE i - 1

\* svgAddPrecipitation, up to the slot durations: the samples that carry a
\* precipitationAmount, each with its period. With a single such sample the
\* neighbour is undefined and reading its date throws.
svgAddPrecipitation(sortedData) ==
    LET data == SelectSeq(sortedData, LAMBDA d : d.precipitationAmount # "undefined")
        n == Len(data)
    IN IF n = 1
       THEN [data |-> <<>>, threw |-> TRUE]
       ELSE [data |-> [i \in 1..n |->
                         [date |-> data[i].date,
                          precipitationAmount |-> data[i].precipitationAmount,
                          src |-> data[i].src,
                          period |-> Abs(data[i].date - data[periodNeighbour(i, n)].date)]],
             threw |-> FALSE]

\* The plot functions getDom calls for the configuration and the merged series.
plotCalls(cfg, sortedData) ==
    {"addGridAndAxis"}
        \cup (IF cfg.showNights /\ Len(sortedData) > 1 THEN {"svgAddDayNight"} ELSE {})
        \cup (IF cfg.showPrecipitationAmount THEN {"svgAddPrecipitation"} ELSE {})
        \cup (IF cfg.showPressure THEN {"svgAddPressure"} ELSE {})
        \cup (IF cfg.showMinMaxTemperature THEN {"svgAddTemperatureMinMax"} ELSE {})
        \cup (IF cfg.showTemperature THEN {"svgAddTemperature"} ELSE {})
        \cup (IF cfg.showFeelsLikeTemp THEN {"svgAddFeelsAlikeTemperature"} ELSE {})
        \cup (IF cfg.showIcons THEN {"svgAddWeatherIcons"} ELSE {})
        \cup (IF cfg.showHumidity THEN {"svgAddHumidity"} ELSE {})
        \cup (IF cfg.showWind THEN {"svgAddWind"} ELSE {})
        \cup (IF cfg.showUVI THEN {"svgAddUvi"} ELSE {})
        \cup (IF cfg.showAQI THEN {"svgAddAqi"} ELSE {})

\* d.field && d.field !== null
truthy(value) == value = "number"

\* sortedData.filter(d => d.field && d.field !== null)
plotData(sortedData, field) == SelectSeq(sortedData, LAMBDA d : truthy(d[field]))

\* svgAddTemperature, svgAddPressure, svgAddHumidity, svgAddWind, svgAddUvi
\* and svgAddAqi place the axis icon at getValue(data[0]): with no sample left
\* by the filter data[0] is undefined and reading its field throws.
plotThrows(sortedData, field) == Len(plotData(sortedData, field)) = 0

\* The field each of these plot functions reads.
plotField ==
    [svgAddTemperature |-> "temperature", svgAddPressure |-> "pressure",
     svgAddHumidity |-> "humidity", svgAddWind |-> "windSpeed", svgAddUvi |-> "uvi"]

\* The plot functions called that throw (their promise is rejected).
plotsThrowing(cfg, sortedData, dataPollution, precip) ==
    {f \in DOMAIN plotField \cap plotCalls(cfg, sortedData) : plotThrows(sortedData, plotField[f])}
        \cup (IF cfg.showAQI /\ plotThrows(dataPollution, "aqi") THEN {"svgAddAqi"} ELSE {})
        \cup (IF precip.threw THEN {"svgAddPrecipitation"} ELSE {})

\* sortedData.filter(differentThanPrevious): a sample is kept when it has a
\* weatherType that differs from lastIcon, and lastIcon becomes the sample's
\* weatherType whether it has one or not.
RECURSIVE differentThanPrevious(_, _, _, _)
differentThanPrevious(sortedData, i, lastIcon, dataIcons) ==
    IF i > Len(sortedData) THEN dataIcons
    ELSE LET d == sortedData[i]
             res == d.weatherType # "undefined" /\ lastIcon # d.weatherType
         IN differentThanPrevious(sortedData, i + 1, d.weatherType,
                                  IF res THEN Append(dataIcons, d) ELSE dataIcons)

\* svgAddWeatherIcons: the samples an icon is drawn for.
svgAddWeatherIcons(sortedData) == differentThanPrevious(sortedData, 1, "undefined", <<>>)

\* d3.select(`#${this.identifier} svg`).remove(): the first svg, if any, goes.
\* Faulty variant: the existing svg is left in place.
removeSvg_kept(svgs) == svgs

removeSvg(svgs) == IF Len(svgs) > 0 THEN Tail(svgs) ELSE svgs

getDom ==
    /\ LET dataHourly == ifDef(weatherHourly, <<>>)
           dataDaily == ifDef(weatherForecast, <<>>)
           dataPollution == ifDef(pollutionForecast, <<>>)
       IN IF hasData(dataHourly, dataDaily)
          THEN LET sortedData == mergeData(dataHourly, dataDaily)
                   removed == Len(container) - Len(removeSvg(container))
                   precip == IF config.showPrecipitationAmount
                             THEN svgAddPrecipitation(sortedData)
                             ELSE [data |-> <<>>, threw |-> FALSE]
                   threw == plotsThrowing(config, sortedData, dataPollution, precip)
               IN /\ renders < MaxRenders
                  /\ renders' = renders + 1
                  /\ config' = [config EXCEPT !.iconSize = IF @ = "undefined" THEN "auto" ELSE @]
                  /\ container' = Append(removeSvg(container), [pass |-> renders'])
                  /\ dom' = [called |-> TRUE, rendered |-> TRUE, sortedData |-> sortedData,
                             removed |-> removed, added |-> 1,
                             plots |-> plotCalls(config, sortedData), threw |-> threw,
                             precipitation |-> precip,
                             icons |-> IF config.showIcons
                                       THEN svgAddWeatherIcons(sortedData) ELSE <<>>,
                             promise |-> IF threw # {} THEN "rejected" ELSE "resolved"]
          ELSE /\ dom' = [NoDom EXCEPT !.called = TRUE, !.promise = "resolved"]
               /\ UNCHANGED <<config, container, renders>>
    /\ UNCHANGED <<weatherHourly, weatherForecast, pollutionForecast>>
    /\ UNCHANGED schedVars
    /\ UNCHANGED extVars

\* The provider replaces the array a getter returns: by an empty one, or by
\* one holding one more sample.
setWeatherHourly ==
    /\ \/ weatherHourly' = Arr(<<>>)
       \/ /\ Len(weatherHourly.items) + Len(weatherForecast.items) < MaxSamples
          /\ \E d \in Samples("hourly") : weatherHourly' = Arr(Append(weatherHourly.items, d))
    /\ dom' = NoDom
    /\ UNCHANGED <<config, weatherForecast, pollutionForecast, container, renders>>
    /\ UNCHANGED schedVars
    /\ UNCHANGED extVars

setWeatherForecast ==
    /\ \/ weatherForecast' = Arr(<<>>)
       \/ /\ Len(weatherHourly.items) + Len(weatherForecast.items) < MaxSamples
          /\ \E d \in Samples("daily") : weatherForecast' = Arr(Append(weatherForecast.items, d))
    /\ dom' = NoDom
    /\ UNCHANGED <<config, weatherHourly, pollutionForecast, container, renders>>
    /\ UNCHANGED schedVars
    /\ UNCHANGED extVars

DomInit ==
    /\ config = defaults
    /\ InitSched
    /\ weatherProvider = [fetchCurrentPollution |-> FALSE, fetchPollutionForecast |-> FALSE]
    /\ InitDom
    /\ pollutionForecast = Arr(<<[date |-> 0, aqi |-> "number"]>>)
    /\ InitExt

DomNext == setWeatherHourly \/ setWeatherForecast \/ getDom

DomSpec == DomInit /\ [][DomNext]_vars

\* ------------------------------------------------- samples lacking fields
\* Hourly samples with ascending dates in which at most one plotted field
\* holds something else than a number.
PlotSamples(date) ==
    {[date |-> date, precipitationAmount |-> "number", src |-> "hourly",
      temperature |-> IF f = "temperature" THEN v ELSE "number",
      pressure |-> IF f = "pressure" THEN v ELSE "number",
      humidity |-> IF f = "humidity" THEN v ELSE "number",
      windSpeed |-> IF f = "windSpeed" THEN v ELSE "number",
      uvi |-> IF f = "uvi" THEN v ELSE "number",
      weatherType |-> "day-sunny"] : f \in PlotFields, v \in FieldValues}

\* The provider replaces the hourly array: by an empty one, or by one holding
\* one more, later sample.
setPlotHourly ==
    /\ \/ weatherHourly' = Arr(<<>>)
       \/ /\ Len(weatherHourly.items) < MaxPlotSamples
          /\ \E d \in PlotSamples(10 * (2^Len(weatherHourly.items) - 1)) :
                weatherHourly' = Arr(Append(weatherHourly.items, d))
    /\ dom' = NoDom
    /\ UNCHANGED <<config, weatherForecast, pollutionForecast, container, renders>>
    /\ UNCHANGED schedVars
    /\ UNCHANGED extVars

\* The provider replaces the pollution array: by an empty one or by one sample.
setPollutionForecast ==
    /\ \/ pollutionForecast' = Arr(<<>>)
       \/ \E d \in PollutionSamples : pollutionForecast' = Arr(<<d>>)
    /\ dom' = NoDom
    /\ UNCHANGED <<config, weatherHourly, weatherForecast, container, renders>>
    /\ UNCHANGED schedVars
    /\ UNCHANGED extVars

PlotInit ==
    /\ config = defaults
    /\ InitSched
    /\ weatherProvider = [fetchCurrentPollution |-> TRUE, fetchPollutionForecast |-> TRUE]
    /\ InitDom
    /\ pollutionForecast = Null
    /\ InitExt

PlotNext == setPlotHourly \/ setPollutionForecast \/ getDom

PlotSpec == PlotInit /\ [][PlotNext]_vars

\* --------------------------------------------- samples and weather types
\* Hourly samples with ascending dates whose weatherType varies.
IconSamples(date) ==
    {[date |-> date, precipitationAmount |-> "number", src |-> "hourly",
      temperature |-> "number", pressure |-> "number", humidity |-> "number",
      windSpeed |-> "number", uvi |-> "number", weatherType |-> w] : w \in WeatherTypes}

\* The provider replaces the hourly array: by an empty one, or by one holding
\* one more, later sample.
setIconHourly ==
    /\ \/ weatherHourly' = Arr(<<>>)
       \/ /\ Len(weatherHourly.items) < MaxIconSamples
          /\ \E d \in IconSamples(10 * (2^Len(weatherHourly.items) - 1)) :
                weatherHourly' = Arr(Append(weatherHourly.items, d))
    /\ dom' = NoDom
    /\ UNCHANGED <<config, weatherForecast, pollutionForecast, container, renders>>
    /\ UNCHANGED schedVars
    /\ UNCHANGED extVars

IconInit ==
    /\ config = defaults
    /\ InitSched
    /\ weatherProvider = [fetchCurrentPollution |-> TRUE, fetchPollutionForecast |-> TRUE]
    /\ InitDom
    /\ pollutionForecast = Arr(<<[date |-> 0, aqi |-> "number"]>>)
    /\ InitExt

IconNext == setIconHourly \/ getDom

IconSpec == IconInit /\ [][IconNext]_vars

\* ----------------------------------------------------------- keepExtremes
\* data holds fctGet(item) for each item of the array; an item is named by its
\* index in the array (0-based, as in the source).

\* const startIndexToDisplay = 2
\* Faulty variant: the scan starts one index earlier, at the first pair.
startIndexToDisplay_first == 2 - 1

startIndexToDisplay == 2

\* let lastValue = Number.MAX_SAFE_INTEGER: farther than any minDelta from
\* every value an accessor returns here.
MaxSafeInteger == [max |-> TRUE, v |-> 0]

\* minDelta === undefined || Math.abs(d0 - lastValue) > minDelta
\* Faulty variant: the filter is not applied.
farEnough_always(d0, lastValue, minDelta) == TRUE

\* Faulty variant: a value exactly minDelta away passes.
farEnough_orEqual(d0, lastValue, minDelta) ==
    \/ ~minDelta.defined
    \/ lastValue.max
    \/ Abs(d0 - lastValue.v) >= minDelta.v

farEnough(d0, lastValue, minDelta) ==
    \/ ~minDelta.defined
    \/ lastValue.max
    \/ Abs(d0 - lastValue.v) > minDelta.v

\* let direction = data.length <= 1 || fctGet(data[1]) > fctGet(data[0]) ? -1 : 1
initialDirection(data) == IF Len(data) <= 1 \/ data[2] > data[1] THEN -1 ELSE 1

\* The for loop, from index i (0-based) on; data[i] of the source is data[i + 1] here.
RECURSIVE keepExtremesLoop(_, _, _, _, _, _)
keepExtremesLoop(data, minDelta, i, direction, lastValue, result) ==
    IF i >= Len(data) THEN result
    ELSE LET d0 == data[i]
             d1 == data[i + 1]
             turn == \/ i = Len(data) - 1
                     \/ (direction > 0 /\ d1 < d0)
                     \/ (direction < 0 /\ d1 > d0)
             keep == turn /\ farEnough(d0, lastValue, minDelta)
         IN keepExtremesLoop(data, minDelta, i + 1,
                             IF turn THEN -direction ELSE direction,
                             IF keep THEN [max |-> FALSE, v |-> d0] ELSE lastValue,
                             IF keep THEN Append(result, i - 1) ELSE result)

\* keepExtremes(data, fctGet, minDelta): the indices of the items returned, in order.
keepExtremes(data, minDelta) ==
    keepExtremesLoop(data, minDelta, startIndexToDisplay, initialDirection(data),
                     MaxSafeInteger, <<>>)

RECURSIVE SeqsUpTo(_, _)
SeqsUpTo(S, n) ==
    IF n = 0 THEN {<<>>}
    ELSE LET shorter == SeqsUpTo(S, n - 1)
         IN shorter \cup {Append(q, x) : q \in {r \in shorter : Len(r) = n - 1}, x \in S}

ExtInit ==
    /\ config = defaults
    /\ InitSched
    /\ weatherProvider = [fetchCurrentPollution |-> FALSE, fetchPollutionForecast |-> FALSE]
    /\ InitDom
    /\ pollutionForecast = Null
    /\ extremes \in [data : SeqsUpTo(1..MaxValue, MaxLen),
                     minDelta : {Undefined} \cup {Number(v) : v \in 0..MaxDelta},
                     called : {FALSE}, result : {<<>>}]

callKeepExtremes ==
    /\ ~extremes.called
    /\ extremes' = [extremes EXCEPT !.called = TRUE,
                                    !.result = keepExtremes(extremes.data, extremes.minDelta)]
    /\ UNCHANGED config
    /\ UNCHANGED schedVars
    /\ UNCHANGED domVars

ExtNext == callKeepExtremes

ExtSpec == ExtInit /\ [][ExtNext]_vars

Next == start \/ suspend \/ resume \/ timerCallback \/ updateAvailable

Spec == Init /\ [][Next]_vars

\* Without host interference (no suspend, no resume): every pending timeout
\* eventually fires and every outstanding fetch is eventually answered.
LiveNext == start \/ timerCallback \/ updateAvailable

LiveSpec ==
    /\ Init
    /\ [][LiveNext]_vars
    /\ WF_vars(start)
    /\ WF_vars(timerCallback)
    /\ WF_vars(updateAvailable)

\* ------------------------------------------------------------ properties
RecognizedType == config.type \in HourlySpellings \cup DailySpellings \cup FullSpellings

\* C1: updateAvailable calls updateDom only when every fetch issued by the
\* latest fetch cycle has been answered.
C1_RedrawOnlyWhenCycleAnswered == last.updateDom => inflightCur = 0

\* C2: between suspend and the next resume no timeout fires and no provider
\* fetch is issued.
C2_SuspendStopsUpdates == suspended => (last.op # "timer" /\ last.fetches = 0)

\* C3: with a recognized type, no suspend and every fetch answered, every
\* fetch cycle is followed by a redraw and fetch cycles recur forever.
C3_CyclesRecur ==
    /\ (RecognizedType /\ last.op = "timer") ~> last.updateDom
    /\ [](RecognizedType => <>(last.op = "timer"))

\* C4: a firing timeout leaves nbUpdateWait at 1 for hourly and for
\* daily/forecast in any letter case, and for full at 3 when showAQI is set
\* and the provider defines fetchCurrentPollution, else at 2.
C4_ExpectedCallbacks ==
    last.op = "timer" =>
        /\ config.type \in HourlySpellings \cup DailySpellings => nbUpdateWait = 1
        /\ config.type \in FullSpellings =>
              nbUpdateWait = IF config.showAQI /\ weatherProvider.fetchCurrentPollution
                             THEN 3 ELSE 2

C4_Witness ==
    /\ last.op = "timer"
    /\ config.type = <<"F", "u", "l", "l">>
    /\ config.showAQI
    /\ weatherProvider.fetchCurrentPollution
    /\ nbUpdateWait = 3

\* C5: a timeout firing with an unrecognized type logs an error, sets
\* nbUpdateWait to 0, issues no fetch and calls no updateDom.
C5_InvalidTypeDisablesCycle ==
    (last.op = "timer" /\ config.type \in OtherSpellings) =>
        /\ last.error
        /\ nbUpdateWait = 0
        /\ last.fetches = 0
        /\ inflightCur = 0
        /\ ~last.updateDom

C5_Witness ==
    /\ last.op = "timer"
    /\ config.type = <<"w", "e", "e", "k", "l", "y">>
    /\ last.error
    /\ nbUpdateWait = 0

\* The arrays getDom read, and helpers to speak about them.
Hourly == weatherHourly.items
Daily == weatherForecast.items

UniqueByDate(series) ==
    \A i, j \in DOMAIN series : i # j => series[i].date # series[j].date

Ascending(series) ==
    \A i \in 1..(Len(series) - 1) : series[i].date <= series[i + 1].date

Count(series, x) == Cardinality({i \in DOMAIN series : series[i] = x})

DatesOf(series) == [i \in DOMAIN series |-> series[i].date]

LastHourly == CHOOSE m \in {Hourly[i].date : i \in DOMAIN Hourly} :
                  \A i \in DOMAIN Hourly : Hourly[i].date <= m

\* C6: for non-empty hourly and daily inputs, each unique by timestamp, the
\* merged series is strictly ascending by timestamp (sorted, no duplicates).
C6_MergedSortedUnique ==
    (dom.called /\ Len(Hourly) > 0 /\ Len(Daily) > 0
        /\ UniqueByDate(Hourly) /\ UniqueByDate(Daily)) =>
        /\ dom.rendered
        /\ \A i \in 1..(Len(dom.sortedData) - 1) :
              dom.sortedData[i].date < dom.sortedData[i + 1].date

C6_Witness ==
    /\ dom.called
    /\ Len(Hourly) = 2 /\ Len(Daily) = 1
    /\ Hourly[1].date > Hourly[2].date
    /\ Daily[1].date = Hourly[1].date
    /\ Len(dom.sortedData) = 2

\* C7: with both inputs non-empty, the merged series holds exactly the daily
\* samples dated strictly after the latest hourly sample.
C7_DailyKeptIffAfterLastHourly ==
    (dom.called /\ Len(Hourly) > 0 /\ Len(Daily) > 0) =>
        \A x \in Samples("daily") :
            Count(dom.sortedData, x) = IF x.date > LastHourly THEN Count(Daily, x) ELSE 0

C7_Witness ==
    /\ dom.called
    /\ Len(Hourly) > 0
    /\ \E i, j \in DOMAIN Daily : Daily[i].date = LastHourly /\ Daily[j].date > LastHourly
    /\ Len(dom.sortedData) = Len(Hourly) + 1

\* C8 as stated: when exactly one input is non-empty the merged series is
\* that input in its original order, whatever that order is.
C8_SingleInputUnchanged ==
    /\ (dom.called /\ Len(Hourly) > 0 /\ Len(Daily) = 0) => dom.sortedData = Hourly
    /\ (dom.called /\ Len(Hourly) = 0 /\ Len(Daily) > 0) => dom.sortedData = Daily

\* C8 amended: when exactly one input is non-empty the merged series is that
\* input sorted ascending by timestamp; it is the input itself when the input
\* is already in ascending order.
C8_SingleInputSorted ==
    \A input \in {Hourly, Daily} :
        (dom.called /\ Len(input) > 0 /\ Len(Hourly) + Len(Daily) = Len(input)) =>
            /\ Len(dom.sortedData) = Len(input)
            /\ \A i \in DOMAIN input : Count(dom.sortedData, input[i]) = Count(input, input[i])
            /\ Ascending(dom.sortedData)
            /\ Ascending(input) => dom.sortedData = input

C8_Witness ==
    /\ dom.called
    /\ Len(Hourly) = 0 /\ Len(Daily) = 3
    /\ DatesOf(Daily) = <<30, 0, 10>>
    /\ DatesOf(dom.sortedData) = <<0, 10, 30>>

\* C9: a getDom call that finds both series empty removes no svg, adds no svg,
\* calls no plot function and leaves the container as it was.
C9_EmptySkipsRendering ==
    [][(dom'.called /\ Len(Hourly') = 0 /\ Len(Daily') = 0) =>
          /\ ~dom'.rendered
          /\ dom'.removed = 0
          /\ dom'.added = 0
          /\ dom'.plots = {}
          /\ container' = container
          /\ renders' = renders]_vars

C9_Witness ==
    /\ dom.called
    /\ Len(Hourly) = 0 /\ Len(Daily) = 0
    /\ ~dom.rendered
    /\ Len(container) = 1

\* C10: the period of sample i is abs(date[i] - date[j]) with j = i+1 if it
\* exists, else i-1; the last period equals its predecessor's; dates 0, 10, 30
\* give periods 10, 20, 20.
C10_PeriodDuration ==
    (dom.called /\ ~dom.precipitation.threw) =>
        LET data == dom.precipitation.data
            n == Len(data)
        IN /\ \A i \in 1..n :
                 LET j == IF i + 1 <= n THEN i + 1 ELSE i - 1
                 IN data[i].period = Abs(data[i].date - data[j].date)
           /\ n >= 2 => data[n].period = data[n - 1].period
           /\ DatesOf(data) = <<0, 10, 30>> =>
                 [i \in 1..n |-> data[i].period] = <<10, 20, 20>>

C10_Witness ==
    /\ dom.called
    /\ DatesOf(dom.precipitation.data) = <<0, 10, 30>>
    /\ dom.precipitation.data[1].period = 10
    /\ dom.precipitation.data[2].period = 20
    /\ dom.precipitation.data[3].period = 20

\* The keepExtremes call under study, and helpers to speak about it.
ExtData == extremes.data
ExtResult == extremes.result
LastIndex == Len(ExtData) - 1
ValueAt(k) == ExtData[k + 1]
Range(seq) == {seq[k] : k \in DOMAIN seq}

\* What the same call returns with minDelta undefined: the turning points the
\* scan finds, before the minDelta filter.
Unfiltered == keepExtremes(ExtData, Undefined)

\* The item emitted last before item c, or -1.
EmittedBefore(c) ==
    LET earlier == {k \in Range(ExtResult) : k < c}
    IN IF earlier = {} THEN -1
       ELSE CHOOSE k \in earlier : \A j \in earlier : j <= k

\* C11: keepExtremes never returns the item at index 0.
C11_NeverFirstItem ==
    extremes.called => \A k \in DOMAIN ExtResult : ExtResult[k] # 0

C11_Witness ==
    /\ extremes.called
    /\ ExtData = <<5, 1, 5>>
    /\ ~extremes.minDelta.defined
    /\ ExtResult = <<1>>

\* C12: for an array of length >= 2 the last item is a candidate: it is
\* returned with minDelta undefined, and with minDelta defined whenever its
\* value is more than minDelta away from the value emitted before it.
C12_LastItemIsCandidate ==
    (extremes.called /\ Len(ExtData) >= 2) =>
        LET prev == EmittedBefore(LastIndex)
            far == \/ ~extremes.minDelta.defined
                   \/ prev = -1
                   \/ Abs(ValueAt(LastIndex) - ValueAt(prev)) > extremes.minDelta.v
        IN far => LastIndex \in Range(ExtResult)

\* C13: for a strictly increasing array of length >= 3 and minDelta undefined,
\* keepExtremes returns exactly the last item.
C13_IncreasingKeepsOnlyLast ==
    (extremes.called /\ ~extremes.minDelta.defined /\ Len(ExtData) >= 3
        /\ \A k \in 1..(Len(ExtData) - 1) : ExtData[k] < ExtData[k + 1]) =>
        ExtResult = <<LastIndex>>

\* C14: for a strictly alternating array such as 1,5,1,5,1 and minDelta
\* undefined, keepExtremes returns every item from index 1 on, in order.
C14_ZigZagKeepsAllButFirst ==
    (extremes.called /\ ~extremes.minDelta.defined /\ Len(ExtData) >= 3
        /\ \A k \in 2..(Len(ExtData) - 1) :
              \/ (ExtData[k] > ExtData[k - 1] /\ ExtData[k] > ExtData[k + 1])
              \/ (ExtData[k] < ExtData[k - 1] /\ ExtData[k] < ExtData[k + 1])) =>
        ExtResult = [k \in 1..LastIndex |-> k]

\* C15: with minDelta defined, two consecutive returned items differ by more
\* than minDelta, and a turning point is returned exactly when its value is
\* more than minDelta away from the last returned value (not from the
\* previous turning point).
C15_FilterAgainstLastEmitted ==
    (extremes.called /\ extremes.minDelta.defined) =>
        /\ \A k \in 1..(Len(ExtResult) - 1) :
              Abs(ValueAt(ExtResult[k + 1]) - ValueAt(ExtResult[k])) > extremes.minDelta.v
        /\ \A c \in Range(Unfiltered) :
              c \in Range(ExtResult) <=>
                  \/ EmittedBefore(c) = -1
                  \/ Abs(ValueAt(c) - ValueAt(EmittedBefore(c))) > extremes.minDelta.v

\* A turning point is dropped although it is more than minDelta away from the
\* turning point just before it, which was dropped too.
C15_Witness ==
    /\ extremes.called
    /\ extremes.minDelta.defined
    /\ \E k \in 1..(Len(Unfiltered) - 1) :
          /\ Unfiltered[k] \notin Range(ExtResult)
          /\ Unfiltered[k + 1] \notin Range(ExtResult)
          /\ Abs(ValueAt(Unfiltered[k + 1]) - ValueAt(Unfiltered[k])) > extremes.minDelta.v

\* C16: what keepExtremes returns with minDelta defined is a subsequence of
\* what it returns with minDelta undefined, and when there are several
\* turning points, all within a band of width minDelta, it returns fewer.
C16_FilterOnlyDrops ==
    (extremes.called /\ extremes.minDelta.defined) =>
        /\ Range(ExtResult) \subseteq Range(Unfiltered)
        /\ \A k \in 1..(Len(ExtResult) - 1) : ExtResult[k] < ExtResult[k + 1]
        /\ (/\ Len(Unfiltered) >= 2
            /\ \A a, b \in Range(Unfiltered) :
                  Abs(ValueAt(a) - ValueAt(b)) <= extremes.minDelta.v)
              => Len(ExtResult) < Len(Unfiltered)

C16_Witness ==
    /\ extremes.called
    /\ extremes.minDelta = Number(3)
    /\ Len(Unfiltered) >= 3
    /\ \E a, b \in Range(Unfiltered) : ValueAt(a) # ValueAt(b)
    /\ \A a, b \in Range(Unfiltered) : Abs(ValueAt(a) - ValueAt(b)) <= 3
    /\ Len(ExtResult) = 1

\* A series' field is carried by no sample: every sample holds undefined or null there.
FieldAbsent(data, field) == \A i \in 1..Len(data) : data[i][field] \in {"undefined", "null"}

\* The enabled line plots whose field no sample of their series carries.
SeriesWithoutField ==
    {f \in DOMAIN plotField \cap dom.plots : FieldAbsent(dom.sortedData, plotField[f])}
        \cup (IF "svgAddAqi" \in dom.plots /\ FieldAbsent(ifDef(pollutionForecast, <<>>), "aqi")
              THEN {"svgAddAqi"} ELSE {})

\* C17: when the merged series is non-empty and no sample carries the field
\* of an enabled series, that plot raises no error and the promise getDom
\* returns resolves.
C17_MissingFieldOmitsPlot ==
    (dom.called /\ dom.rendered /\ SeriesWithoutField # {}) =>
        (SeriesWithoutField \cap dom.threw = {} /\ dom.promise = "resolved")

\* C18: computing periodDuration raises no exception for any non-empty
\* series, a series with exactly one precipitation sample included.
C18_PeriodDurationNeverThrows ==
    (dom.called /\ dom.rendered) => ~dom.precipitation.threw

\* C19: the container holds at most one svg element, and after a render pass
\* on non-empty data that element is the one this pass built.
C19_RenderReplacesChart ==
    /\ Len(container) <= 1
    /\ (dom.called /\ dom.rendered) => container = <<[pass |-> renders]>>

\* A second render pass removed the svg of the first and left its own.
C19_Witness ==
    /\ dom.called
    /\ dom.rendered
    /\ renders = 2
    /\ dom.removed = 1
    /\ container = <<[pass |-> 2]>>

\* C20: at most one update timer is pending, and this.timer refers to it:
\* no timeout is pending whose handle this.timer has lost.
C20_AtMostOneTimerArmed == orphanTimers = 0

\* C21: the pending-callback counter nbUpdateWait is never negative (each
\* fetch cycle being answered by exactly one redraw and one re-armed timer).
C21_CounterNeverNegative == nbUpdateWait >= 0

\* C22: on every timer firing the number of provider fetches issued equals
\* the value nbUpdateWait is set to, for every type and provider.
C22_FetchesMatchCounter == last.op = "timer" => last.fetches = nbUpdateWait

\* C23: after a timer firing with an unrecognized type no timer is pending,
\* neither the one this.timer refers to nor another.
C23_InvalidTypeLeavesNoTimer ==
    (last.op = "timer" /\ config.type \in OtherSpellings) =>
        (timer # "armed" /\ orphanTimers = 0)

\* The samples of the merged series whose field holds a number, 0 included.
FieldPresent(data, field) == SelectSeq(data, LAMBDA d : d[field] \in {"0", "number"})

\* C24: a sample whose field is the number 0 is part of that series' plotted
\* data; only samples whose field is undefined or null are left out.
C24_ZeroIsPlotted ==
    (dom.called /\ dom.rendered) =>
        \A f \in DOMAIN plotField \cap dom.plots :
            plotData(dom.sortedData, plotField[f]) = FieldPresent(dom.sortedData, plotField[f])

\* C25: every sample an icon is displayed for has a weatherType, and no two
\* consecutive displayed icons have the same weatherType.
C25_IconsOnlyWhereChanged ==
    (dom.called /\ dom.rendered /\ "svgAddWeatherIcons" \in dom.plots) =>
        /\ \A i \in 1..Len(dom.icons) : dom.icons[i].weatherType # "undefined"
        /\ \A i \in 1..(Len(dom.icons) - 1) :
              dom.icons[i].weatherType # dom.icons[i + 1].weatherType

====
